---- MODULE Spec2Model ----
(***************************************************************************)
(* Bookmark manager: the dashboard's in-memory bookmark list               *)
(* (src/app/dashboard/page.tsx) kept by fetchBookmarks, handleAddBookmark, *)
(* handleDeleteBookmark and the two realtime handlers of one open          *)
(* dashboard, against the bookmarks table that other tabs of the same user *)
(* change too.  Every await of a handler is a point where the steps of the *)
(* other handlers, of the table and of the change feed interleave.         *)
(***************************************************************************)
EXTENDS Naturals, Integers, Sequences, FiniteSets, TLC

\* ------------------------------------------------------------------ bounds
\* Rows the bookmarks table ever receives (ids are assigned 1..MaxRecords).
MaxRecords == 3
\* Requests to the table that fail (insert, delete or select).
MaxFailures == 2
\* Adds and deletes users make, in this tab and in other tabs together.
MaxOps == 3
\* Length of the texts typed into the form, in characters of Chars.
MaxInput == 2
\* access tokens an auth session goes through
MaxTokens == 3
\* property reads of the exported client per module
MaxAccesses == 3
\* times a tab opens the dashboard
MaxMounts == 2

\* Open dashboards whose list is modelled.  Other tabs and devices of the same
\* user act on the table through OtherInsert and OtherDelete.
Sessions == {"A"}
\* user.id of the signed-in user of a session.
UserId(s) == "u1"

NoUser == "null"
\* A response of the table: {data, error}
Ok(data) == [error |-> FALSE, data |-> data]
Err == [error |-> TRUE, data |-> <<>>]
NoRec == [id |-> 0, created_at |-> 0, user_id |-> NoUser]

Ids == 1 .. MaxRecords

\* Rows of the bookmarks table (title and url play no part in the list logic)
Rows == [id : Ids, created_at : 1 .. MaxRecords, user_id : {UserId(s) : s \in Sessions}]

\* postgres_changes payloads: INSERT carries payload.new, DELETE payload.old
Notifications == [type : {"INSERT", "DELETE"}, rec : Rows]

VARIABLES
    store,      \* rows of public.bookmarks
    nextId,     \* next id the table assigns
    clock,      \* the table's now(): created_at of the latest row
    user,       \* per session: useState user (NoUser = null)
    loading,    \* per session: useState loading
    adding,     \* per session: useState adding
    bookmarks,  \* per session: useState bookmarks (a sequence, head first)
    initReq,    \* per session: position of init()
    addReq,     \* per session: position of the handleAddBookmark call
    delReq,     \* per session and id: position of the handleDeleteBookmark call
    failures,   \* requests that failed so far
    ops,        \* adds and deletes users made so far
    feed,       \* per session: postgres_changes notifications not yet delivered
    notice,     \* per session: the alert() the last handler step showed (the
                \*   onChange handlers of the form show none and are not counted)
    staleIds,   \* per session: ids the last handler step took out of the list
                \*   while their delete buttons are still on screen
    title,      \* per session: useState title (the form input)
    url,        \* per session: useState url (the form input)
    insertBody, \* per session: the row of the insert request in flight
    token,      \* per session: the access token the realtime client holds
                \*   (0 = none, n = the n-th token of the auth session)
    env,        \* process.env: whether NEXT_PUBLIC_SUPABASE_URL and
                \*   NEXT_PUBLIC_SUPABASE_ANON_KEY are set
    supabaseClient, \* per client module: its supabaseClient (0 = null, n = the
                \*   n-th client createClient returned)
    created,    \* clients createClient has returned so far
    channels,   \* per session: channels of the dashboard that are subscribed
                \*   and not unsubscribed
    mounts,     \* per session: how often the dashboard has been mounted
    accessed,   \* per client module: the property read last, whether the
                \*   read threw, and the reads so far
    last        \* the handler step a session took last: operation, session,
                \*   id, and the operation of the step before it when that
                \*   one was about the same id

vars == <<store, nextId, clock, user, loading, adding, bookmarks, initReq,
          addReq, delReq, failures, ops, feed, notice, staleIds, title, url,
          insertBody, token, env, supabaseClient, created, accessed, channels,
          mounts, last>>

\* The variables of the client modules (lib/supabase.ts and its other version)
clientVars == <<env, supabaseClient, created, accessed>>
\* The variables of the component's life: its channels and its mounts
mountVars == <<channels, mounts>>

\* ------------------------------------------------------------ list helpers
IdsOf(list) == {list[i].id : i \in 1 .. Len(list)}

Count(list, id) == Cardinality({i \in 1 .. Len(list) : list[i].id = id})

NoDuplicateIds(list) ==
    \A i, j \in 1 .. Len(list) : list[i].id = list[j].id => i = j

\* created_at descending: newest first
SortedDesc(list) ==
    \A i, j \in 1 .. Len(list) : i < j => list[i].created_at >= list[j].created_at

\* .select('*').order('created_at', {ascending: false}) over the rows the
\* SELECT policy shows to uid: every order of those rows that is descending
\* in created_at (rows with equal created_at come in either order).
SelectOrdered(rows, uid) ==
    LET mine == {r \in rows : r.user_id = uid}
        n == Cardinality(mine)
    IN {q \in [1 .. n -> mine] :
            /\ \A i, j \in 1 .. n : q[i] = q[j] => i = j
            /\ SortedDesc(q)}

\* The responses a select can get now: the rows in order, or an error while
\* the failure budget lasts.
SelectResponses(uid, spent) ==
    {Ok(q) : q \in SelectOrdered(store, uid)}
        \cup (IF spent < MaxFailures THEN {Err} ELSE {})

Failed(res) == IF res.error THEN 1 ELSE 0

\* A resync that keeps the entries of the list the select did not return.
FetchUpdaterMerge(current, res) ==
    IF res.error THEN current
    ELSE res.data \o SelectSeq(current,
            LAMBDA item : \A i \in 1 .. Len(res.data) : res.data[i].id # item.id)

\* A fetchBookmarks that does setBookmarks(data || []) also after a failed
\* select.
FetchUpdaterClears(current, res) ==
    IF res.error THEN <<>> ELSE res.data

\* fetchBookmarks: setBookmarks(data || []) unless the select failed
FetchUpdater(current, res) ==
    IF res.error THEN current ELSE res.data

\* An init() without its finally block.
FinallyMissing(value) == value

\* init(): finally { setLoading(false) }
Finally(value) == FALSE

\* ---------------------------------------------------------------- alerts
NoNotice == "none"

\* A handleAddBookmark that reports nothing.
AddNoticeSilent(pc) == NoNotice

\* handleAddBookmark: the alert of the error branch or of the catch branch
AddNotice(pc) ==
    CASE pc = "error" -> "Failed to add bookmark. Please try again."
      [] pc = "thrown" -> "An unexpected error occurred."
      [] OTHER -> NoNotice

\* A handleAddBookmark that clears the form in finally.
FormAfterAlwaysCleared(pc, text) == <<>>

\* handleAddBookmark: setTitle('') and setUrl('') are reached only when the
\* insert answered without an error
FormAfter(pc, text) == IF pc = "data" THEN <<>> ELSE text

\* The ways the awaited insert ends that handleAddBookmark tells apart
AddOutcomes(pc) == IF pc = "data" THEN {"data"} ELSE {"error", "thrown"}

\* The ways a failed delete ends that handleDeleteBookmark tells apart
DeleteOutcomes == {"error", "thrown"}

\* A handleDeleteBookmark that resyncs and reports nothing.
DeleteNoticeSilent(pc) == NoNotice

\* handleDeleteBookmark: the alert after fetchBookmarks, in the error branch
\* or in the catch branch
DeleteNotice(pc) ==
    CASE pc = "error" -> "Failed to delete bookmark. Please try again."
      [] pc = "thrown" -> "An unexpected error occurred."
      [] OTHER -> NoNotice

\* ------------------------------------------------------------- the form
\* What a text of the form is made of: a blank, any other character, and the
\* two prefixes handleAddBookmark looks for.
Chars == {" ", "x", "http://", "https://"}
\* The texts of the form: sequences of at most MaxInput characters.
Inputs(chars) == UNION {[1 .. n -> chars] : n \in 0 .. MaxInput}

\* The texts one keystroke makes of str: a character more (up to MaxInput
\* characters), or the last character less.
Edits(str, chars) ==
    (IF Len(str) < MaxInput THEN {Append(str, c) : c \in chars} ELSE {})
        \cup (IF str # <<>> THEN {SubSeq(str, 1, Len(str) - 1)} ELSE {})

RECURSIVE TrimStart(_)
TrimStart(str) ==
    IF str # <<>> /\ Head(str) = " " THEN TrimStart(Tail(str)) ELSE str

RECURSIVE TrimEnd(_)
TrimEnd(str) ==
    IF str # <<>> /\ str[Len(str)] = " "
    THEN TrimEnd(SubSeq(str, 1, Len(str) - 1)) ELSE str

\* A validation that looks at the texts as typed.
TrimNothing(str) == str

\* String.prototype.trim
Trim(str) == TrimEnd(TrimStart(str))

\* handleAddBookmark: !title.trim() || !url.trim()
Invalid(t, u) == Trim(t) = <<>> \/ Trim(u) = <<>>

ValidationNotice == "Please fill in both title and URL"

StartsWith(str, prefix) == str # <<>> /\ Head(str) = prefix

\* A normalisation that puts https:// in front of every url.
NormalizeUrlAlways(u) == <<"https://">> \o Trim(u)

\* handleAddBookmark: validUrl
NormalizeUrl(u) ==
    LET validUrl == Trim(u)
    IN IF ~StartsWith(validUrl, "http://") /\ ~StartsWith(validUrl, "https://")
       THEN <<"https://">> \o validUrl
       ELSE validUrl

\* handleAddBookmark: the row handed to insert([...])
InsertBody(uid, t, u) ==
    [user_id |-> uid, title |-> Trim(t), url |-> NormalizeUrl(u)]

NoBody == [user_id |-> NoUser, title |-> <<>>, url |-> <<>>]

\* The title and url of a submission in the specifications that leave the
\* texts of the form out.
SomeTitle == <<"x">>
SomeUrl == <<"x">>

\* ------------------------------------------------------ the client modules
\* lib/supabase.ts, and the other version of the file with initSupabase
ClientModules == {"lib", "part"}
Configured == [url |-> TRUE, key |-> TRUE]
\* process.env with either variable set or missing
Envs == [url : BOOLEAN, key : BOOLEAN]
\* !supabaseUrl || !supabaseAnonKey
Missing(e) == ~e.url \/ ~e.key
\* The properties the pages read from the exported client
Props == {"auth", "from", "channel", "realtime"}
NoAccess == [prop |-> "-", threw |-> FALSE, n |-> 0]

\* A getter that makes a client on every read.
NeedsClientAlways(current) == TRUE

\* if (!supabaseClient)
NeedsClient(current) == current = 0

\* ------------------------------------------------- the setBookmarks updaters
\* The INSERT handler as the README shows it (layout.tsx), without the
\* duplicate check.
InsertUpdaterNoCheck(current, next) ==
    <<next>> \o current

\* An INSERT handler that puts the row below the entries that are as new or
\* newer.
InsertUpdaterAfterTies(current, next) ==
    IF \E i \in 1 .. Len(current) : current[i].id = next.id
    THEN current
    ELSE SelectSeq(current, LAMBDA item : item.created_at >= next.created_at)
            \o <<next>>
            \o SelectSeq(current, LAMBDA item : item.created_at < next.created_at)

\* realtime INSERT handler: skip when the id is in the list, else put on top
InsertUpdater(current, next) ==
    IF \E i \in 1 .. Len(current) : current[i].id = next.id
    THEN current
    ELSE <<next>> \o current

\* A DELETE handler that removes only the first entry with the id.
DeleteUpdaterFirstOnly(current, deleted) ==
    LET hits == {i \in 1 .. Len(current) : current[i].id = deleted.id}
    IN IF hits = {} THEN current
       ELSE LET k == CHOOSE i \in hits : \A j \in hits : i <= j
            IN SubSeq(current, 1, k - 1) \o SubSeq(current, k + 1, Len(current))

\* realtime DELETE handler: current.filter(bookmark => bookmark.id !== deleted.id)
DeleteUpdater(current, deleted) ==
    SelectSeq(current, LAMBDA bookmark : bookmark.id # deleted.id)

\* A confirmation that appends the returned row at the end of the list.
AddUpdaterAtEnd(current, newBookmark) ==
    current \o <<newBookmark>>

\* A confirmation computed from the list handleAddBookmark saw when it was
\* called on an empty list: [newBookmark, ...[]].
AddUpdaterFromEmpty(current, newBookmark) ==
    <<newBookmark>>

\* handleAddBookmark on success: [newBookmark, ...current]
AddUpdater(current, newBookmark) ==
    <<newBookmark>> \o current

\* An optimistic removal by index: splice(findIndex(id), 1), which takes the
\* last entry when the id is not found (index -1).
RemoveUpdaterSplice(current, id) ==
    LET hits == {i \in 1 .. Len(current) : current[i].id = id}
    IN IF hits = {} THEN SubSeq(current, 1, Len(current) - 1)
       ELSE SelectSeq(current, LAMBDA item : item.id # id)

\* An optimistic removal that drops only the first entry with the id.
RemoveUpdaterFirstOnly(current, id) ==
    LET hits == {i \in 1 .. Len(current) : current[i].id = id}
    IN IF hits = {} THEN current
       ELSE LET k == CHOOSE i \in hits : \A j \in hits : i <= j
            IN SubSeq(current, 1, k - 1) \o SubSeq(current, k + 1, Len(current))

\* handleDeleteBookmark: current.filter(item => item.id !== id)
RemoveUpdater(current, id) ==
    SelectSeq(current, LAMBDA item : item.id # id)

\* ------------------------------------------------------------------- feed
\* A subscription whose filter names a column that never equals user.id, so
\* that no INSERT matches it.
InsertListenersWrongColumn(r) == {}

\* A subscription effect that makes the channel without a user.
HasChannelAlways(s) == TRUE

\* The subscription effect: if (!user) return, else the channel is made
HasChannel(s) == user[s] # NoUser

\* Sessions whose channel receives the INSERT of row r (filter user_id=eq.<id>)
InsertListeners(r) == {s \in Sessions : HasChannel(s) /\ user[s] = r.user_id}
\* Sessions whose channel receives a DELETE (no filter on the subscription)
DeleteListeners == {s \in Sessions : HasChannel(s)}

Publish(type, r, to) ==
    [s \in Sessions |->
        IF s \in to THEN feed[s] \cup {[type |-> type, rec |-> r]} ELSE feed[s]]

\* The record kept in last for a handler step (an observer of the run, read
\* only by the properties below).
Step(op, s, id) ==
    [op |-> op, s |-> s, id |-> id,
     prev |-> IF last.s = s /\ last.id = id THEN last.op ELSE "-"]

\* What a handler step of session s leaves on screen: the alert it showed,
\* and the delete buttons of the entries it took out of the list, which stay
\* clickable until React has rendered the new list (while loading, the page
\* renders the spinner and no entry).
Shows(s, message) ==
    /\ notice' = [notice EXCEPT ![s] = message]
    /\ staleIds' = [staleIds EXCEPT
            ![s] = IF loading[s] THEN {}
                   ELSE IdsOf(bookmarks[s]) \ IdsOf(bookmarks'[s])]

\* ------------------------------------------------------------------- Init
InitEnv(e) ==
    /\ store = {}
    /\ nextId = 1
    /\ clock = 0
    /\ user = [s \in Sessions |-> NoUser]
    /\ loading = [s \in Sessions |-> TRUE]
    /\ adding = [s \in Sessions |-> FALSE]
    /\ bookmarks = [s \in Sessions |-> <<>>]
    /\ initReq = [s \in Sessions |-> [pc |-> "start", res |-> Ok(<<>>)]]
    /\ addReq = [s \in Sessions |-> [pc |-> "idle", rec |-> NoRec]]
    /\ delReq = [s \in Sessions |-> [i \in Ids |-> [pc |-> "idle", res |-> Ok(<<>>)]]]
    /\ failures = 0
    /\ ops = 0
    /\ feed = [s \in Sessions |-> {}]
    /\ notice = [s \in Sessions |-> NoNotice]
    /\ staleIds = [s \in Sessions |-> {}]
    /\ title = [s \in Sessions |-> <<>>]
    /\ url = [s \in Sessions |-> <<>>]
    /\ insertBody = [s \in Sessions |-> NoBody]
    /\ token = [s \in Sessions |-> 0]
    /\ env = e
    /\ supabaseClient = [m \in ClientModules |-> 0]
    /\ created = 0
    /\ accessed = [m \in ClientModules |-> NoAccess]
    /\ channels = [s \in Sessions |-> 0]
    /\ mounts = [s \in Sessions |-> 1]
    /\ last = [op |-> "-", s |-> "-", id |-> 0, prev |-> "-"]

\* The deployment sets both environment variables.
Init == InitEnv(Configured)

\* ---------------------------------------------------------------- actions
\* init(): getUser succeeds, setUser (the subscription effect runs and
\* subscribes a channel), the
\* realtime client gets the access token of the session, then
\* fetchBookmarks is called and the table answers the select (or fails).
InitFetch(s) ==
    /\ initReq[s].pc = "start"
    /\ ~Missing(env)
    /\ user' = [user EXCEPT ![s] = UserId(s)]
    /\ \E res \in SelectResponses(UserId(s), failures) :
          /\ initReq' = [initReq EXCEPT ![s] = [pc |-> "fetching", res |-> res]]
          /\ failures' = failures + Failed(res)
    /\ token' = [token EXCEPT ![s] = 1]
    /\ channels' = [channels EXCEPT ![s] = @ + 1]
    /\ last' = Step("initFetch", s, 0)
    /\ UNCHANGED <<ops, store, nextId, clock, loading, adding, bookmarks, addReq,
                   delReq, feed>>
    /\ Shows(s, NoNotice)
    /\ UNCHANGED <<title, url>>
    /\ UNCHANGED <<insertBody, clientVars, mounts>>

\* fetchBookmarks returns inside init(): setBookmarks(data || []) unless the
\* select failed; finally setLoading(false).
InitDone(s) ==
    /\ initReq[s].pc = "fetching"
    /\ bookmarks' = [bookmarks EXCEPT
            ![s] = FetchUpdater(@, initReq[s].res)]
    /\ loading' = [loading EXCEPT ![s] = Finally(@)]
    /\ initReq' = [initReq EXCEPT ![s] = [pc |-> "done", res |-> Ok(<<>>)]]
    /\ last' = Step("reconcileFull", s, 0)
    /\ UNCHANGED <<failures, ops, store, nextId, clock, user, adding, addReq, delReq, feed>>
    /\ Shows(s, NoNotice)
    /\ UNCHANGED <<title, url>>
    /\ UNCHANGED <<insertBody, token, clientVars, mountVars>>

\* A form whose inputs and button are never disabled.
FormNeverDisabled(s) == FALSE

\* The inputs and the submit button of the add form: disabled={adding}
FormDisabled(s) == adding[s]

\* handleAddBookmark up to the await, on a title t and a url u that pass the
\* validation: setAdding(true), the insert request is sent.  The form is
\* disabled while adding.  (Spec and SpecLoaded leave the texts of the form
\* out and submit SomeTitle and SomeUrl; SpecForm has the texts, see
\* HandleAddBookmark.)
SubmitAdd(s, t, u) ==
    /\ ~Invalid(t, u)
    /\ insertBody' = [insertBody EXCEPT ![s] = InsertBody(user[s], t, u)]
    /\ ~loading[s]
    /\ user[s] # NoUser
    /\ ~FormDisabled(s)
    /\ nextId + Cardinality({x \in Sessions : addReq[x].pc = "requested"}) <= MaxRecords
    /\ ops < MaxOps
    /\ ops' = ops + 1
    /\ adding' = [adding EXCEPT ![s] = TRUE]
    /\ addReq' = [addReq EXCEPT ![s] = [pc |-> "requested", rec |-> NoRec]]
    /\ last' = Step("submitAdd", s, 0)
    /\ UNCHANGED <<failures, store, nextId, clock, user, loading, bookmarks, initReq,
                   delReq, feed>>
    /\ Shows(s, NoNotice)
    /\ UNCHANGED <<title, url>>
    /\ UNCHANGED <<token, clientVars, mountVars>>

\* The table executes the insert: the row gets its id and created_at, the
\* INSERT is published, and the row is the response's data.
StoreInsert(s) ==
    /\ addReq[s].pc = "requested"
    /\ LET t == clock + 1
           r == [id |-> nextId, created_at |-> t, user_id |-> user[s]] IN
          /\ store' = store \cup {r}
          /\ nextId' = nextId + 1
          /\ clock' = t
          /\ feed' = Publish("INSERT", r, InsertListeners(r))
          /\ addReq' = [addReq EXCEPT ![s] = [pc |-> "data", rec |-> r]]
    /\ UNCHANGED <<failures, ops, user, loading, adding, bookmarks, initReq, delReq, last>>
    /\ UNCHANGED <<notice, staleIds, title, url>>
    /\ UNCHANGED <<insertBody, token, clientVars, mountVars>>

\* The insert request fails: the response will carry an error, or the call
\* will throw.
StoreInsertFails(s) ==
    /\ addReq[s].pc = "requested"
    /\ failures < MaxFailures
    /\ failures' = failures + 1
    /\ addReq' = [addReq EXCEPT ![s] = [pc |-> "failed", rec |-> NoRec]]
    /\ UNCHANGED <<ops, store, nextId, clock, user, loading, adding, bookmarks,
                   initReq, delReq, feed, last>>
    /\ UNCHANGED <<notice, staleIds, title, url>>
    /\ UNCHANGED <<insertBody, token, clientVars, mountVars>>

\* handleAddBookmark after the await: on error alert and return; on data
\* setBookmarks(current => [newBookmark, ...current]) and the form is
\* cleared; a throw is caught with an alert; finally setAdding(false).
\* Whether a failed call returned an error or threw shows here first.
AddResponse(s) ==
    /\ addReq[s].pc \in {"data", "failed"}
    /\ bookmarks' = [bookmarks EXCEPT
            ![s] = IF addReq[s].pc = "data" THEN AddUpdater(@, addReq[s].rec) ELSE @]
    /\ adding' = [adding EXCEPT ![s] = FALSE]
    /\ addReq' = [addReq EXCEPT ![s] = [pc |-> "idle", rec |-> NoRec]]
    /\ last' = Step(IF addReq[s].pc = "data" THEN "addConfirmed" ELSE "addFailed",
                    s, addReq[s].rec.id)
    /\ UNCHANGED <<failures, ops, store, nextId, clock, user, loading, initReq, delReq, feed>>
    /\ \E how \in AddOutcomes(addReq[s].pc) : Shows(s, AddNotice(how))
    /\ title' = [title EXCEPT ![s] = FormAfter(addReq[s].pc, @)]
    /\ url' = [url EXCEPT ![s] = FormAfter(addReq[s].pc, @)]
    /\ insertBody' = [insertBody EXCEPT ![s] = NoBody]
    /\ UNCHANGED <<token, clientVars, mountVars>>

\* handleDeleteBookmark up to the await: the trash button of an entry on
\* screen was clicked (a listed entry, or one the step before took out of the
\* list and React has not yet rendered away); the entry is filtered out and
\* the delete request is sent.
SubmitDelete(s, id) ==
    /\ ~loading[s]
    /\ id \in IdsOf(bookmarks[s]) \cup staleIds[s]
    /\ delReq[s][id].pc \in {"idle", "done"}
    /\ ops < MaxOps
    /\ ops' = ops + 1
    /\ bookmarks' = [bookmarks EXCEPT ![s] = RemoveUpdater(@, id)]
    /\ delReq' = [delReq EXCEPT ![s][id] = [pc |-> "requested", res |-> Ok(<<>>)]]
    /\ last' = Step("submitDelete", s, id)
    /\ UNCHANGED <<failures, store, nextId, clock, user, loading, adding, initReq, addReq,
                   feed>>
    /\ Shows(s, NoNotice)
    /\ UNCHANGED <<title, url>>
    /\ UNCHANGED <<insertBody, token, clientVars, mountVars>>

\* The table executes the delete .eq('id', id) and publishes a removed row;
\* the response carries no error and handleDeleteBookmark ends.
StoreDelete(s, id) ==
    /\ delReq[s][id].pc = "requested"
    /\ LET gone == {r \in store : r.id = id /\ r.user_id = user[s]} IN
          /\ store' = store \ gone
          /\ feed' = IF gone = {} THEN feed
                     ELSE Publish("DELETE", CHOOSE r \in gone : TRUE, DeleteListeners)
    /\ delReq' = [delReq EXCEPT ![s][id] = [pc |-> "done", res |-> Ok(<<>>)]]
    /\ UNCHANGED <<failures, ops, nextId, clock, user, loading, adding, bookmarks, initReq,
                   addReq, last>>
    /\ UNCHANGED <<notice, staleIds, title, url>>
    /\ UNCHANGED <<insertBody, token, clientVars, mountVars>>

\* The delete request fails (an error in the response, or a throw) and the
\* row stays: handleDeleteBookmark calls fetchBookmarks, and the table answers
\* the select (or fails).
StoreDeleteFails(s, id) ==
    /\ delReq[s][id].pc = "requested"
    /\ failures < MaxFailures
    /\ \E res \in SelectResponses(user[s], failures + 1) :
          /\ delReq' = [delReq EXCEPT ![s][id] = [pc |-> "refetch", res |-> res]]
          /\ failures' = failures + 1 + Failed(res)
    /\ UNCHANGED <<ops, store, nextId, clock, user, loading, adding, bookmarks,
                   initReq, addReq, feed, last>>
    /\ UNCHANGED <<notice, staleIds, title, url>>
    /\ UNCHANGED <<insertBody, token, clientVars, mountVars>>

\* fetchBookmarks returns inside handleDeleteBookmark: setBookmarks(data || [])
\* unless the select failed; then the alert of the error branch or of the
\* catch branch, whichever the failed delete took.
DeleteRefetched(s, id) ==
    /\ delReq[s][id].pc = "refetch"
    /\ bookmarks' = [bookmarks EXCEPT ![s] = FetchUpdater(@, delReq[s][id].res)]
    /\ delReq' = [delReq EXCEPT ![s][id] = [pc |-> "idle", res |-> Ok(<<>>)]]
    /\ last' = Step("reconcileFull", s, id)
    /\ UNCHANGED <<failures, ops, store, nextId, clock, user, loading, adding, initReq, addReq,
                   feed>>
    /\ \E how \in DeleteOutcomes : Shows(s, DeleteNotice(how))
    /\ UNCHANGED <<title, url>>
    /\ UNCHANGED <<insertBody, token, clientVars, mountVars>>

\* Another tab of the same user adds a bookmark: the table inserts the row
\* and publishes the INSERT.
OtherInsert ==
    /\ ops < MaxOps
    /\ ops' = ops + 1
    /\ nextId + Cardinality({t \in Sessions : addReq[t].pc = "requested"}) <= MaxRecords
    /\ \E u \in {UserId(s) : s \in Sessions} :
          LET t == clock + 1
              r == [id |-> nextId, created_at |-> t, user_id |-> u] IN
          /\ store' = store \cup {r}
          /\ nextId' = nextId + 1
          /\ clock' = t
          /\ feed' = Publish("INSERT", r, InsertListeners(r))
    /\ UNCHANGED <<failures, user, loading, adding, bookmarks, initReq, addReq, delReq, last>>
    /\ UNCHANGED <<notice, staleIds, title, url>>
    /\ UNCHANGED <<insertBody, token, clientVars, mountVars>>

\* Another tab of the same user deletes a bookmark: the table removes the row
\* and publishes the DELETE.
OtherDelete ==
    /\ ops < MaxOps
    /\ ops' = ops + 1
    /\ \E r \in store :
          /\ store' = store \ {r}
          /\ feed' = Publish("DELETE", r, DeleteListeners)
    /\ UNCHANGED <<failures, nextId, clock, user, loading, adding, bookmarks, initReq,
                   addReq, delReq, last>>
    /\ UNCHANGED <<notice, staleIds, title, url>>
    /\ UNCHANGED <<insertBody, token, clientVars, mountVars>>

\* The channel delivers a notification n; again = TRUE delivers it and keeps
\* it deliverable (duplicate delivery).
Consume(s, n, again) ==
    feed' = IF again THEN feed ELSE [feed EXCEPT ![s] = @ \ {n}]

\* realtime INSERT handler
MergeRemoteInsert(s, n, again) ==
    /\ n \in feed[s]
    /\ n.type = "INSERT"
    /\ Consume(s, n, again)
    /\ bookmarks' = [bookmarks EXCEPT ![s] = InsertUpdater(@, n.rec)]
    /\ last' = Step("mergeRemoteInsert", s, n.rec.id)
    /\ UNCHANGED <<failures, ops, store, nextId, clock, user, loading, adding, initReq, addReq,
                   delReq>>
    /\ Shows(s, NoNotice)
    /\ UNCHANGED <<title, url>>
    /\ UNCHANGED <<insertBody, token, clientVars, mountVars>>

\* realtime DELETE handler
MergeRemoteDelete(s, n, again) ==
    /\ n \in feed[s]
    /\ n.type = "DELETE"
    /\ Consume(s, n, again)
    /\ bookmarks' = [bookmarks EXCEPT ![s] = DeleteUpdater(@, n.rec)]
    /\ last' = Step("mergeRemoteDelete", s, n.rec.id)
    /\ UNCHANGED <<failures, ops, store, nextId, clock, user, loading, adding, initReq, addReq,
                   delReq>>
    /\ Shows(s, NoNotice)
    /\ UNCHANGED <<title, url>>
    /\ UNCHANGED <<insertBody, token, clientVars, mountVars>>

Next ==
    \/ OtherInsert
    \/ OtherDelete
    \/ \E s \in Sessions : InitFetch(s)
    \/ \E s \in Sessions : InitDone(s)
    \/ \E s \in Sessions : SubmitAdd(s, SomeTitle, SomeUrl)
    \/ \E s \in Sessions : StoreInsert(s)
    \/ \E s \in Sessions : StoreInsertFails(s)
    \/ \E s \in Sessions : AddResponse(s)
    \/ \E s \in Sessions, id \in Ids : SubmitDelete(s, id)
    \/ \E s \in Sessions, id \in Ids : StoreDelete(s, id)
    \/ \E s \in Sessions, id \in Ids : StoreDeleteFails(s, id)
    \/ \E s \in Sessions, id \in Ids : DeleteRefetched(s, id)
    \/ \E s \in Sessions, n \in Notifications, again \in BOOLEAN : MergeRemoteInsert(s, n, again)
    \/ \E s \in Sessions, n \in Notifications, again \in BOOLEAN : MergeRemoteDelete(s, n, again)

Spec == Init /\ [][Next]_vars

\* --------------------------------------------------- the form of the page
\* onChange of the title input, a keystroke later: setTitle(e.target.value)
SetTitle(s, v) ==
    /\ ~loading[s]
    /\ ~adding[s]
    /\ v \in Edits(title[s], {" ", "x"})
    /\ title' = [title EXCEPT ![s] = v]
    /\ UNCHANGED <<store, nextId, clock, user, loading, adding, bookmarks, initReq,
                   addReq, delReq, failures, ops, feed, notice, staleIds, last, url>>
    /\ UNCHANGED <<insertBody, token, clientVars, mountVars>>

\* onChange of the url input, a keystroke later: setUrl(e.target.value)
SetUrl(s, v) ==
    /\ ~loading[s]
    /\ ~adding[s]
    /\ v \in Edits(url[s], Chars)
    /\ url' = [url EXCEPT ![s] = v]
    /\ UNCHANGED <<store, nextId, clock, user, loading, adding, bookmarks, initReq,
                   addReq, delReq, failures, ops, feed, notice, staleIds, last, title>>
    /\ UNCHANGED <<insertBody, token, clientVars, mountVars>>

\* handleAddBookmark on a title or url that is empty after trim(): the alert,
\* and return.
RejectAdd(s) ==
    /\ ~loading[s]
    /\ ~adding[s]
    /\ last' = Step("addRejected", s, 0)
    /\ UNCHANGED <<store, nextId, clock, user, loading, adding, bookmarks, initReq,
                   addReq, delReq, failures, ops, feed, title, url>>
    /\ UNCHANGED <<insertBody, token, clientVars, mountVars>>
    /\ Shows(s, ValidationNotice)

\* handleAddBookmark up to its first return or await, on the texts of the form
HandleAddBookmark(s) ==
    IF Invalid(title[s], url[s]) THEN RejectAdd(s)
    ELSE SubmitAdd(s, title[s], url[s])

NextForm ==
    \/ \E s \in Sessions : InitFetch(s)
    \/ \E s \in Sessions : InitDone(s)
    \/ \E s \in Sessions, v \in Inputs({" ", "x"}) : SetTitle(s, v)
    \/ \E s \in Sessions, v \in Inputs(Chars) : SetUrl(s, v)
    \/ \E s \in Sessions : HandleAddBookmark(s)
    \/ \E s \in Sessions : StoreInsert(s)
    \/ \E s \in Sessions : StoreInsertFails(s)
    \/ \E s \in Sessions : AddResponse(s)

SpecForm == Init /\ [][NextForm]_vars

\* ------------------------------------------------ a table with two users
\* A second account, with no dashboard of its own in the model.
OtherUser == "u2"

\* Rows and payloads of both accounts
AllRows == [id : Ids, created_at : 1 .. MaxRecords,
            user_id : {UserId(s) : s \in Sessions} \cup {OtherUser}]
AllNotifications == [type : {"INSERT", "DELETE"}, rec : AllRows]

\* The other account adds a bookmark: the table inserts the row and publishes
\* the INSERT to the channels whose filter it matches.
OtherUserInsert ==
    /\ ops < MaxOps
    /\ ops' = ops + 1
    /\ nextId <= MaxRecords
    /\ LET t == clock + 1
           r == [id |-> nextId, created_at |-> t, user_id |-> OtherUser] IN
          /\ store' = store \cup {r}
          /\ nextId' = nextId + 1
          /\ clock' = t
          /\ feed' = Publish("INSERT", r, InsertListeners(r))
    /\ UNCHANGED <<failures, user, loading, adding, bookmarks, initReq, addReq, delReq, last>>
    /\ UNCHANGED <<notice, staleIds, title, url>>
    /\ UNCHANGED <<insertBody, token, clientVars, mountVars>>

\* The channel hands session s the INSERT of a row of the other account:
\* the filter of the subscription was not applied to it.
UnfilteredInsert(s, r) ==
    /\ user[s] # NoUser
    /\ r \in store
    /\ r.user_id # user[s]
    /\ [type |-> "INSERT", rec |-> r] \notin feed[s]
    /\ feed' = Publish("INSERT", r, {s})
    /\ UNCHANGED <<store, nextId, clock, failures, ops, user, loading, adding, bookmarks,
                   initReq, addReq, delReq, last>>
    /\ UNCHANGED <<notice, staleIds, title, url>>
    /\ UNCHANGED <<insertBody, token, clientVars, mountVars>>

\* ------------------------------------------- the policies of the table
\* auth.uid() of a request: an account, or NULL without a session
Callers == {UserId(s) : s \in Sessions} \cup {OtherUser, NoUser}

\* A table without row level security.
NoPolicy(uid, r) == TRUE

\* USING (auth.uid() = user_id) / WITH CHECK (auth.uid() = user_id); a
\* comparison with NULL is not true
SelectPolicy(uid, r) == uid # NoUser /\ uid = r.user_id
InsertPolicy(uid, r) == uid # NoUser /\ uid = r.user_id
DeletePolicy(uid, r) == uid # NoUser /\ uid = r.user_id
UpdatePolicy(uid, old, new) ==
    /\ uid # NoUser /\ uid = old.user_id
    /\ uid = new.user_id

\* The rows a select of uid returns
Visible(uid) == {r \in store : SelectPolicy(uid, r)}

\* uid asks the table to insert a row owned by owner
PolicyInsert(uid, owner) ==
    /\ nextId <= MaxRecords
    /\ LET t == clock + 1
           r == [id |-> nextId, created_at |-> t, user_id |-> owner] IN
          /\ InsertPolicy(uid, r)
          /\ store' = store \cup {r}
          /\ nextId' = nextId + 1
          /\ clock' = t
    /\ UNCHANGED <<failures, ops, user, loading, adding, bookmarks, initReq, addReq,
                   delReq, feed, last, notice, staleIds, title, url>>
    /\ UNCHANGED <<insertBody, token, clientVars, mountVars>>

\* uid asks the table to delete the row with the id
PolicyDelete(uid, id) ==
    /\ \E r \in store : r.id = id /\ DeletePolicy(uid, r)
    /\ store' = store \ {r \in store : r.id = id /\ DeletePolicy(uid, r)}
    /\ UNCHANGED <<nextId, clock, failures, ops, user, loading, adding, bookmarks,
                   initReq, addReq, delReq, feed, last, notice, staleIds, title, url>>
    /\ UNCHANGED <<insertBody, token, clientVars, mountVars>>

\* uid asks the table to set the owner and the creation time of the row
\* with the id
PolicyUpdate(uid, id, owner, at) ==
    /\ \E r \in store :
          LET new == [r EXCEPT !.user_id = owner, !.created_at = at] IN
          /\ r.id = id
          /\ new # r
          /\ UpdatePolicy(uid, r, new)
          /\ store' = (store \ {r}) \cup {new}
    /\ UNCHANGED <<nextId, clock, failures, ops, user, loading, adding, bookmarks,
                   initReq, addReq, delReq, feed, last, notice, staleIds, title, url>>
    /\ UNCHANGED <<insertBody, token, clientVars, mountVars>>

NextStore ==
    \/ \E uid \in Callers, owner \in Callers \ {NoUser} : PolicyInsert(uid, owner)
    \/ \E uid \in Callers, id \in Ids : PolicyDelete(uid, id)
    \/ \E uid \in Callers, id \in Ids, owner \in Callers \ {NoUser}, at \in 1 .. MaxRecords :
            PolicyUpdate(uid, id, owner, at)

SpecStore == Init /\ [][NextStore]_vars

NextShared ==
    \/ OtherInsert
    \/ OtherUserInsert
    \/ \E s \in Sessions : InitFetch(s)
    \/ \E s \in Sessions : InitDone(s)
    \/ \E s \in Sessions, r \in AllRows : UnfilteredInsert(s, r)
    \/ \E s \in Sessions, n \in AllNotifications, again \in BOOLEAN :
            MergeRemoteInsert(s, n, again)

SpecShared == Init /\ [][NextShared]_vars

\* ------------------------------------------- a dashboard that has loaded
\* The rows another tab added before this dashboard was opened.
Loaded == <<[id |-> 2, created_at |-> 2, user_id |-> "u1"],
            [id |-> 1, created_at |-> 1, user_id |-> "u1"]>>

\* The state after init() has run to its end on a table holding the rows of
\* Loaded: the user is set, the channel subscribed, the select answered and
\* its rows shown.
InitLoaded ==
    /\ store = {Loaded[i] : i \in 1 .. Len(Loaded)}
    /\ nextId = Len(Loaded) + 1
    /\ clock = Len(Loaded)
    /\ user = [s \in Sessions |-> UserId(s)]
    /\ loading = [s \in Sessions |-> FALSE]
    /\ adding = [s \in Sessions |-> FALSE]
    /\ bookmarks = [s \in Sessions |-> Loaded]
    /\ initReq = [s \in Sessions |-> [pc |-> "done", res |-> Ok(<<>>)]]
    /\ addReq = [s \in Sessions |-> [pc |-> "idle", rec |-> NoRec]]
    /\ delReq = [s \in Sessions |-> [i \in Ids |-> [pc |-> "idle", res |-> Ok(<<>>)]]]
    /\ failures = 0
    /\ ops = 0
    /\ feed = [s \in Sessions |-> {}]
    /\ notice = [s \in Sessions |-> NoNotice]
    /\ staleIds = [s \in Sessions |-> {}]
    /\ title = [s \in Sessions |-> <<>>]
    /\ url = [s \in Sessions |-> <<>>]
    /\ insertBody = [s \in Sessions |-> NoBody]
    /\ token = [s \in Sessions |-> 1]
    /\ env = Configured
    /\ supabaseClient = [m \in ClientModules |-> 0]
    /\ created = 0
    /\ accessed = [m \in ClientModules |-> NoAccess]
    /\ channels = [s \in Sessions |-> 1]
    /\ mounts = [s \in Sessions |-> 1]
    /\ last = [op |-> "reconcileFull", s |-> "A", id |-> 0, prev |-> "-"]

NextLoaded ==
    \/ OtherInsert
    \/ OtherDelete
    \/ \E s \in Sessions : SubmitAdd(s, SomeTitle, SomeUrl)
    \/ \E s \in Sessions : StoreInsert(s)
    \/ \E s \in Sessions : StoreInsertFails(s)
    \/ \E s \in Sessions : AddResponse(s)
    \/ \E s \in Sessions, id \in Ids : SubmitDelete(s, id)
    \/ \E s \in Sessions, id \in Ids : StoreDelete(s, id)
    \/ \E s \in Sessions, id \in Ids : StoreDeleteFails(s, id)
    \/ \E s \in Sessions, id \in Ids : DeleteRefetched(s, id)
    \/ \E s \in Sessions, n \in Notifications, again \in BOOLEAN : MergeRemoteInsert(s, n, again)
    \/ \E s \in Sessions, n \in Notifications, again \in BOOLEAN : MergeRemoteDelete(s, n, again)

SpecLoaded == InitLoaded /\ [][NextLoaded]_vars

\* ------------------------------------------------- the client modules
\* A deployment with any of the two environment variables set or missing.
InitClient == \E e \in Envs : InitEnv(e)

\* The get trap of the exported proxy of module m, reading property prop:
\* the module's client is made by createClient when there is none and both
\* variables are set, the trap throws when there is none and a variable is
\* missing (lib/supabase.ts: getSupabaseClient; the other version:
\* initSupabase), and the property of the client is returned otherwise.
ProxyGet(m, prop) ==
    /\ accessed[m].n < MaxAccesses
    /\ IF NeedsClient(supabaseClient[m])
       THEN IF Missing(env)
            THEN /\ accessed' = [accessed EXCEPT
                        ![m] = [prop |-> prop, threw |-> TRUE, n |-> @.n + 1]]
                 /\ UNCHANGED <<supabaseClient, created>>
            ELSE /\ created' = created + 1
                 /\ supabaseClient' = [supabaseClient EXCEPT ![m] = created + 1]
                 /\ accessed' = [accessed EXCEPT
                        ![m] = [prop |-> prop, threw |-> FALSE, n |-> @.n + 1]]
       ELSE /\ accessed' = [accessed EXCEPT
                   ![m] = [prop |-> prop, threw |-> FALSE, n |-> @.n + 1]]
            /\ UNCHANGED <<supabaseClient, created>>
    /\ UNCHANGED <<store, nextId, clock, user, loading, adding, bookmarks, initReq,
                   addReq, delReq, failures, ops, feed, notice, staleIds, title,
                   url, insertBody, token, env, mountVars, last>>

\* validateSupabaseConfig() of lib/supabase.ts: throws when a variable is
\* missing; makes no client.
ValidateSupabaseConfig ==
    /\ accessed["lib"].n < MaxAccesses
    /\ accessed' = [accessed EXCEPT
            !["lib"] = [prop |-> "validateSupabaseConfig", threw |-> Missing(env),
                        n |-> @.n + 1]]
    /\ UNCHANGED <<store, nextId, clock, user, loading, adding, bookmarks, initReq,
                   addReq, delReq, failures, ops, feed, notice, staleIds, title,
                   url, insertBody, token, env, supabaseClient, created,
                   mountVars, last>>

NextClient ==
    \/ \E m \in ClientModules, prop \in Props : ProxyGet(m, prop)
    \/ ValidateSupabaseConfig

SpecClient == InitClient /\ [][NextClient]_vars

\* ------------------------------------------- no authenticated user
\* init() without a user: validateSupabaseConfig throws (a variable is missing;
\* catch: setError, router.push('/')), or getUser answers with an error or
\* with no user (router.push('/'), return).  finally setLoading(false).
\* setUser and fetchBookmarks are not reached.
InitUnauthenticated(s, cause) ==
    /\ initReq[s].pc = "start"
    /\ cause = "throws" <=> Missing(env)
    /\ initReq' = [initReq EXCEPT
            ![s] = [pc |-> IF cause = "throws" THEN "failed" ELSE "redirected",
                    res |-> Ok(<<>>)]]
    /\ loading' = [loading EXCEPT ![s] = Finally(@)]
    /\ last' = Step("redirect", s, 0)
    /\ UNCHANGED <<store, nextId, clock, user, adding, bookmarks, addReq, delReq,
                   failures, ops, feed>>
    /\ Shows(s, NoNotice)
    /\ UNCHANGED <<title, url, insertBody, token, clientVars, mountVars>>

\* handleAddBookmark on the page a redirect leaves behind until the login
\* page is shown: user is null, so user.id throws before the insert is
\* sent; catch alerts, finally setAdding(false).
HandleAddNoUser(s) ==
    /\ initReq[s].pc = "redirected"
    /\ ~loading[s]
    /\ user[s] = NoUser
    /\ ~FormDisabled(s)
    /\ last' = Step("addThrew", s, 0)
    /\ UNCHANGED <<store, nextId, clock, user, loading, adding, bookmarks, initReq,
                   addReq, delReq, failures, ops, feed>>
    /\ Shows(s, AddNotice("thrown"))
    /\ UNCHANGED <<title, url, insertBody, token, clientVars, mountVars>>

\* init() with a user whose getSession throws: setUser has run (and the
\* subscription effect with it), the catch does setError and router.push('/'),
\* fetchBookmarks is not reached; finally setLoading(false).
InitSessionThrows(s) ==
    /\ initReq[s].pc = "start"
    /\ ~Missing(env)
    /\ failures < MaxFailures
    /\ failures' = failures + 1
    /\ user' = [user EXCEPT ![s] = UserId(s)]
    /\ channels' = [channels EXCEPT ![s] = @ + 1]
    /\ initReq' = [initReq EXCEPT ![s] = [pc |-> "error", res |-> Ok(<<>>)]]
    /\ loading' = [loading EXCEPT ![s] = Finally(@)]
    /\ last' = Step("initThrew", s, 0)
    /\ UNCHANGED <<store, nextId, clock, adding, bookmarks, addReq, delReq, ops, feed>>
    /\ Shows(s, NoNotice)
    /\ UNCHANGED <<title, url, insertBody, token, clientVars, mounts>>

NextAuth ==
    \/ \E s \in Sessions, cause \in {"error", "no user", "throws"} :
            InitUnauthenticated(s, cause)
    \/ \E s \in Sessions : HandleAddNoUser(s)
    \/ \E s \in Sessions : InitFetch(s)
    \/ \E s \in Sessions : InitDone(s)
    \/ OtherInsert
    \/ OtherDelete
    \/ \E s \in Sessions, n \in Notifications : MergeRemoteInsert(s, n, FALSE)
    \/ \E s \in Sessions, n \in Notifications : MergeRemoteDelete(s, n, FALSE)

SpecAuth == InitClient /\ [][NextAuth]_vars

\* ------------------------------------------------ init() to its end
NextInit ==
    \/ NextAuth
    \/ \E s \in Sessions : InitSessionThrows(s)

\* A step of init() of session s
InitStep(s) ==
    \/ \E cause \in {"error", "no user", "throws"} : InitUnauthenticated(s, cause)
    \/ InitSessionThrows(s)
    \/ InitFetch(s)
    \/ InitDone(s)

\* Every request init() awaits is answered, with data, an error or a throw.
SpecInit ==
    /\ InitClient
    /\ [][NextInit]_vars
    /\ \A s \in Sessions : WF_vars(InitStep(s))

\* ------------------------------------------- unmounting and mounting
\* An effect without a cleanup.
CleanupNothing(n) == n

\* The cleanup of the subscription effect: channel.unsubscribe()
Cleanup(n) == n - 1

\* The dashboard is unmounted (sign out, a redirect, or leaving the page):
\* the cleanup of the subscription effect runs when the effect made a
\* channel, the state of the component is gone, and what init() still awaits
\* has no effect.  (Taken while no add and no delete of the session is in
\* flight.)
Unmount(s) ==
    /\ initReq[s].pc # "unmounted"
    /\ addReq[s].pc = "idle"
    /\ \A id \in Ids : delReq[s][id].pc \in {"idle", "done"}
    /\ channels' = [channels EXCEPT ![s] = IF HasChannel(s) THEN Cleanup(@) ELSE @]
    /\ feed' = [feed EXCEPT ![s] = {}]
    /\ initReq' = [initReq EXCEPT ![s] = [pc |-> "unmounted", res |-> Ok(<<>>)]]
    /\ user' = [user EXCEPT ![s] = NoUser]
    /\ loading' = [loading EXCEPT ![s] = TRUE]
    /\ bookmarks' = [bookmarks EXCEPT ![s] = <<>>]
    /\ delReq' = [delReq EXCEPT ![s] = [i \in Ids |-> [pc |-> "idle", res |-> Ok(<<>>)]]]
    /\ notice' = [notice EXCEPT ![s] = NoNotice]
    /\ staleIds' = [staleIds EXCEPT ![s] = {}]
    /\ last' = Step("unmount", s, 0)
    /\ UNCHANGED <<store, nextId, clock, adding, addReq, failures, ops, title, url,
                   insertBody, token, clientVars, mounts>>

\* The tab opens the dashboard again: a new component with the initial
\* values of its state, on the same client.
Remount(s) ==
    /\ initReq[s].pc = "unmounted"
    /\ mounts[s] < MaxMounts
    /\ mounts' = [mounts EXCEPT ![s] = @ + 1]
    /\ initReq' = [initReq EXCEPT ![s] = [pc |-> "start", res |-> Ok(<<>>)]]
    /\ last' = Step("mount", s, 0)
    /\ UNCHANGED <<store, nextId, clock, user, loading, adding, bookmarks, addReq,
                   delReq, failures, ops, feed, notice, staleIds, title, url,
                   insertBody, token, clientVars, channels>>

NextMount ==
    \/ \E s \in Sessions, cause \in {"error", "no user", "throws"} :
            InitUnauthenticated(s, cause)
    \/ \E s \in Sessions : InitFetch(s)
    \/ \E s \in Sessions : InitDone(s)
    \/ \E s \in Sessions : Unmount(s)
    \/ \E s \in Sessions : Remount(s)
    \/ OtherInsert
    \/ OtherDelete
    \/ \E s \in Sessions, n \in Notifications : MergeRemoteInsert(s, n, FALSE)
    \/ \E s \in Sessions, n \in Notifications : MergeRemoteDelete(s, n, FALSE)

SpecMount == InitClient /\ [][NextMount]_vars

\* ------------------------------------------- rows with equal created_at
\* Another tab adds a bookmark within the same reading of now() as the latest
\* row: created_at DEFAULT NOW() gives both rows the same created_at.
OtherInsertTied ==
    /\ ops < MaxOps
    /\ ops' = ops + 1
    /\ clock >= 1
    /\ nextId + Cardinality({t \in Sessions : addReq[t].pc = "requested"}) <= MaxRecords
    /\ \E u \in {UserId(s) : s \in Sessions} :
          LET r == [id |-> nextId, created_at |-> clock, user_id |-> u] IN
          /\ store' = store \cup {r}
          /\ nextId' = nextId + 1
          /\ feed' = Publish("INSERT", r, InsertListeners(r))
    /\ UNCHANGED <<failures, clock, user, loading, adding, bookmarks, initReq, addReq,
                   delReq, last>>
    /\ UNCHANGED <<notice, staleIds, title, url>>
    /\ UNCHANGED <<insertBody, token, clientVars, mountVars>>

\* The table executes the insert of the session within the same reading of
\* now() as the latest row.
StoreInsertTied(s) ==
    /\ addReq[s].pc = "requested"
    /\ clock >= 1
    /\ LET r == [id |-> nextId, created_at |-> clock, user_id |-> user[s]] IN
          /\ store' = store \cup {r}
          /\ nextId' = nextId + 1
          /\ feed' = Publish("INSERT", r, InsertListeners(r))
          /\ addReq' = [addReq EXCEPT ![s] = [pc |-> "data", rec |-> r]]
    /\ UNCHANGED <<failures, ops, clock, user, loading, adding, bookmarks, initReq,
                   delReq, last>>
    /\ UNCHANGED <<notice, staleIds, title, url>>
    /\ UNCHANGED <<insertBody, token, clientVars, mountVars>>

NextTies ==
    \/ \E s \in Sessions : InitFetch(s)
    \/ \E s \in Sessions : InitDone(s)
    \/ OtherInsert
    \/ OtherInsertTied
    \/ \E s \in Sessions : SubmitAdd(s, SomeTitle, SomeUrl)
    \/ \E s \in Sessions : StoreInsert(s)
    \/ \E s \in Sessions : StoreInsertTied(s)
    \/ \E s \in Sessions : AddResponse(s)
    \/ \E s \in Sessions, n \in Notifications : MergeRemoteInsert(s, n, FALSE)

SpecTies == Init /\ [][NextTies]_vars

\* ------------------------------------------ token refresh and feed gaps
\* onAuthStateChange callback: the auth session has a new access token and
\* the realtime client is given it.  Nothing else runs: the subscription
\* effect depends on user only, and fetchBookmarks is not called.
AuthStateChange(s) ==
    /\ user[s] # NoUser
    /\ token[s] < MaxTokens
    /\ token' = [token EXCEPT ![s] = @ + 1]
    /\ UNCHANGED <<store, nextId, clock, user, loading, adding, bookmarks, initReq,
                   addReq, delReq, failures, ops, feed, notice, staleIds, title,
                   url, insertBody, clientVars, mountVars, last>>

\* The channel of the session drops and joins again: the notifications
\* published meanwhile are never delivered.  subscribe() is called without a
\* status callback, so no code of the page runs.
FeedGap(s) ==
    /\ feed[s] # {}
    /\ feed' = [feed EXCEPT ![s] = {}]
    /\ UNCHANGED <<store, nextId, clock, user, loading, adding, bookmarks, initReq,
                   addReq, delReq, failures, ops, notice, staleIds, title, url,
                   insertBody, token, clientVars, mountVars, last>>

NextGap ==
    \/ OtherInsert
    \/ OtherDelete
    \/ \E s \in Sessions, n \in Notifications, again \in BOOLEAN : MergeRemoteInsert(s, n, again)
    \/ \E s \in Sessions, n \in Notifications, again \in BOOLEAN : MergeRemoteDelete(s, n, again)
    \/ \E s \in Sessions : FeedGap(s)
    \/ \E s \in Sessions : AuthStateChange(s)

SpecGap == InitLoaded /\ [][NextGap]_vars

\* ------------------------------------------------------------------ claims
StoreIds(uid) == {r.id : r \in {x \in store : x.user_id = uid}}

\* No request of the session is in flight and every notification is delivered.
Quiescent(s) ==
    /\ initReq[s].pc = "done"
    /\ addReq[s].pc = "idle"
    /\ \A id \in Ids : delReq[s][id].pc \in {"idle", "done"}
    /\ feed[s] = {}

\* C1: in every reachable state the bookmark list holds no two entries with
\* the same id.
C1_NoDuplicateIds ==
    \A s \in Sessions : NoDuplicateIds(bookmarks[s])

\* C2: when the INSERT notification of the row this session has just added
\* was merged before the insert response is processed, processing the
\* successful response leaves exactly one entry with that id.
C2_ConfirmAfterEcho ==
    [][\A s \in Sessions :
          (/\ last.op = "mergeRemoteInsert" /\ last.s = s
           /\ addReq[s].pc = "data" /\ last.id = addReq[s].rec.id
           /\ AddResponse(s))
          => Count(bookmarks'[s], addReq[s].rec.id) = 1]_vars

\* C3: a confirmed add followed by the INSERT notification carrying the id
\* the table returned leaves exactly one entry with that id.
C3_EchoAfterConfirm ==
    [][\A s \in Sessions : \A n \in feed[s] : \A again \in BOOLEAN :
          (/\ last.op = "addConfirmed" /\ last.s = s /\ last.id = n.rec.id
           /\ MergeRemoteInsert(s, n, again))
          => Count(bookmarks'[s], n.rec.id) = 1]_vars

\* C4: in every reachable state the list is sorted by created_at, newest
\* first.
C4_SortedByCreatedAt ==
    \A s \in Sessions : SortedDesc(bookmarks[s])

\* C5: once the session's delete of an id has removed it from the list and
\* the table has deleted the row, no later step puts an entry with that id
\* back into the list.
C5_NoResurrection ==
    [][\A s \in Sessions : \A id \in Ids :
          (/\ delReq[s][id].pc = "done"
           /\ id \notin StoreIds(user[s])
           /\ id \notin IdsOf(bookmarks[s]))
          => id \notin IdsOf(bookmarks'[s])]_vars

\* C6: when nothing is in flight any more (every response processed, every
\* notification delivered) the ids in the list are the ids of the user's
\* rows in the table.
C6_Converged ==
    \A s \in Sessions :
        (Quiescent(s) /\ failures = 0) => IdsOf(bookmarks[s]) = StoreIds(user[s])

C8_RemoteDelete ==
    [][\A s \in Sessions : \A n \in feed[s] : \A again \in BOOLEAN :
          MergeRemoteDelete(s, n, again)
          => /\ Count(bookmarks'[s], n.rec.id) = 0
             /\ (n.rec.id \notin IdsOf(bookmarks[s]) => bookmarks'[s] = bookmarks[s])
             /\ \A id \in Ids \ {n.rec.id} :
                   Count(bookmarks'[s], id) = Count(bookmarks[s], id)]_vars

\* C8 witness: a DELETE notification was merged right after the same one, so
\* the second merge met a list without the id; the list is not empty.
C8_Witness ==
    /\ last.op = "mergeRemoteDelete" /\ last.prev = "mergeRemoteDelete"
    /\ bookmarks[last.s] # <<>>

\* C9: the DELETE notification of an id merged right after the session's
\* submitDelete of that id leaves the list as submitDelete left it.
C9_DeleteThenEcho ==
    [][\A s \in Sessions : \A n \in feed[s] : \A again \in BOOLEAN :
          (/\ last.op = "submitDelete" /\ last.s = s /\ last.id = n.rec.id
           /\ MergeRemoteDelete(s, n, again))
          => bookmarks'[s] = bookmarks[s]]_vars

\* C9 witness: a DELETE notification was merged right after the submitDelete
\* of the same id, into a list that still holds another entry.
C9_Witness ==
    /\ last.op = "mergeRemoteDelete" /\ last.prev = "submitDelete"
    /\ bookmarks[last.s] # <<>>

C12_ResyncMatchesStore ==
    [][\A s \in Sessions : \A id \in Ids :
        DeleteRefetched(s, id)
        => /\ IdsOf(bookmarks'[s]) = StoreIds(user[s])
           /\ id \in IdsOf(bookmarks'[s])]_vars

\* C13: while the delete request of a submitDelete(id) is in flight the list
\* holds no entry with that id.
C13_AbsentWhileInFlight ==
    \A s \in Sessions : \A id \in Ids :
        delReq[s][id].pc = "requested" => id \notin IdsOf(bookmarks[s])

\* C14: a submitDelete of an id that is on screen but no longer in the list
\* leaves the list unchanged and shows no alert, and when the table answers
\* the delete without error the handler ends without alert, without resync
\* and without touching the list.
C14_DeleteAbsentId ==
    [][\A s \in Sessions : \A id \in Ids :
        /\ (id \notin IdsOf(bookmarks[s]) /\ SubmitDelete(s, id))
           => /\ bookmarks'[s] = bookmarks[s]
              /\ notice'[s] = NoNotice
              /\ delReq'[s][id].pc = "requested"
        /\ StoreDelete(s, id)
           => /\ delReq'[s][id].pc = "done"
              /\ notice'[s] = notice[s]
              /\ bookmarks'[s] = bookmarks[s]]_vars

\* The delete of an id that was not in the list has been answered without
\* error, and the other entry is still listed.
C14_Witness ==
    /\ last.op = "submitDelete"
    /\ staleIds[last.s] = {}
    /\ last.id \notin IdsOf(bookmarks[last.s])
    /\ bookmarks[last.s] # <<>>
    /\ delReq[last.s][last.id].pc = "done"
    /\ notice[last.s] = NoNotice

\* C15: an INSERT notification for another record, merged right after a
\* submitDelete(id) whose delete request is still in flight, leaves the list
\* with the new record and without an entry with the deleted id.
C15_UnrelatedInsertInFlight ==
    [][\A s \in Sessions : \A n \in feed[s] : \A again \in BOOLEAN :
       \A id \in Ids :
        (/\ last.op = "submitDelete" /\ last.s = s /\ last.id = id
         /\ delReq[s][id].pc = "requested"
         /\ n.rec.id # id
         /\ MergeRemoteInsert(s, n, again))
        => /\ n.rec.id \in IdsOf(bookmarks'[s])
           /\ id \notin IdsOf(bookmarks'[s])
           /\ \A other \in Ids \ {id, n.rec.id} :
                 Count(bookmarks'[s], other) = Count(bookmarks[s], other)]_vars

\* The unrelated record is in the list, the deleted one is not, and the
\* delete request is still unanswered.
C15_Witness ==
    /\ last.op = "mergeRemoteInsert"
    /\ last.id \in IdsOf(bookmarks[last.s])
    /\ \E id \in Ids \ {last.id} :
          /\ delReq[last.s][id].pc = "requested"
          /\ id \in StoreIds(user[last.s])
          /\ id \notin IdsOf(bookmarks[last.s])

\* C16: for a row that was inserted and deleted in the table, once the last
\* of its notifications has been delivered (here an INSERT, after the
\* DELETE) the list is without the row.
C16_FeedOrderIndependent ==
    [][\A s \in Sessions : \A n \in feed[s] : \A again \in BOOLEAN :
        (/\ MergeRemoteInsert(s, n, again)
         /\ n.rec \notin store
         /\ \A m \in feed'[s] : m.rec.id # n.rec.id)
        => n.rec.id \notin IdsOf(bookmarks'[s])]_vars

\* The list that has r at the place created_at descending gives it.
SortedInsert(list, r) ==
    LET k == Cardinality({i \in 1 .. Len(list) : list[i].created_at > r.created_at})
    IN SubSeq(list, 1, k) \o <<r>> \o SubSeq(list, k + 1, Len(list))

\* C17: an INSERT notification whose id is not in the (sorted) list puts the
\* record at the place created_at descending gives it; with the id in the
\* list it changes nothing.
C17_InsertAtSortedPosition ==
    [][\A s \in Sessions : \A n \in feed[s] : \A again \in BOOLEAN :
        (MergeRemoteInsert(s, n, again) /\ SortedDesc(bookmarks[s]))
        => bookmarks'[s] = IF n.rec.id \in IdsOf(bookmarks[s]) THEN bookmarks[s]
                           ELSE SortedInsert(bookmarks[s], n.rec)]_vars

\* C18: a row another tab inserts is published as an INSERT to every
\* subscribed session of the user, and whenever the channel delivers such a
\* notification the session's list holds the record afterwards: on top, and
\* as the only entry when the list was empty.
C18_InsertReachesSession ==
    [][/\ OtherInsert
          => \A s \in Sessions :
                user[s] # NoUser
                => \E r \in store' \ store :
                      /\ r.user_id = user[s]
                      /\ [type |-> "INSERT", rec |-> r] \in feed'[s] \ feed[s]
       /\ \A s \in Sessions : \A n \in feed[s] : \A again \in BOOLEAN :
            MergeRemoteInsert(s, n, again)
            => /\ n.rec.id \in IdsOf(bookmarks'[s])
               /\ n.rec.id \notin IdsOf(bookmarks[s]) => Head(bookmarks'[s]) = n.rec
               /\ bookmarks[s] = <<>> => bookmarks'[s] = <<n.rec>>]_vars

\* A row that only another tab can have inserted (this session has sent no
\* insert and no delete) is the one entry of the list, merged from the feed.
C18_Witness ==
    /\ last.op = "mergeRemoteInsert"
    /\ last.prev = "-"
    /\ Len(bookmarks[last.s]) = 1
    /\ bookmarks[last.s][1].id = last.id
    /\ bookmarks[last.s][1] \in store
    /\ initReq[last.s].pc = "done"
    /\ addReq[last.s].pc = "idle"
    /\ ops = 1

\* C19: a row another tab has deleted, whose DELETE the channel has
\* delivered and which is not in the list, does not come back into the list.
C19_DeletedStaysAbsent ==
    [][\A s \in Sessions : \A id \in Ids :
        (/\ id < nextId
         /\ id \notin StoreIds(user[s])
         /\ user[s] # NoUser
         /\ delReq[s][id].pc = "idle"
         /\ \A m \in feed[s] : ~(m.type = "DELETE" /\ m.rec.id = id)
         /\ id \notin IdsOf(bookmarks[s]))
        => id \notin IdsOf(bookmarks'[s])]_vars

\* A text that is empty or all blanks.
Blank(str) == \A i \in 1 .. Len(str) : str[i] = " "

\* C20: handleAddBookmark on a title or a url that is empty or all blanks
\* sends no insert request and changes neither the table, nor the list, nor
\* the texts of the form; it only shows the validation alert.  On any other
\* title and url the insert request is sent.
C20_RejectedBeforeRequest ==
    [][\A s \in Sessions :
        HandleAddBookmark(s)
        => IF Blank(title[s]) \/ Blank(url[s])
           THEN /\ addReq'[s] = addReq[s] /\ addReq[s].pc = "idle"
                /\ ~adding'[s]
                /\ store' = store /\ feed' = feed
                /\ bookmarks'[s] = bookmarks[s]
                /\ title'[s] = title[s] /\ url'[s] = url[s]
                /\ notice'[s] = ValidationNotice
           ELSE addReq'[s].pc = "requested" /\ adding'[s]]_vars

\* A submission with a title of blanks only was rejected.
C20_Witness ==
    /\ last.op = "addRejected"
    /\ title[last.s] # <<>> /\ Blank(title[last.s])
    /\ ~Blank(url[last.s])
    /\ notice[last.s] = ValidationNotice
    /\ addReq[last.s].pc = "idle"

\* C21: the insert request of a submission carries the user's id, the
\* trimmed title, which is not empty, and a url that starts with http:// or
\* https://: the trimmed url itself when it starts with one of the two,
\* else the trimmed url with https:// in front; normalising that url again
\* changes nothing.
C21_InsertRequestBody ==
    [][\A s \in Sessions :
        (HandleAddBookmark(s) /\ addReq'[s].pc = "requested")
        => LET body == insertBody'[s]
               trimmed == TrimEnd(TrimStart(url[s]))
           IN /\ body.user_id = user[s] /\ user[s] # NoUser
              /\ body.title = TrimEnd(TrimStart(title[s]))
              /\ body.title # <<>>
              /\ Head(body.url) \in {"http://", "https://"}
              /\ body.url = IF Head(trimmed) \in {"http://", "https://"}
                            THEN trimmed
                            ELSE <<"https://">> \o trimmed
              /\ NormalizeUrl(body.url) = body.url]_vars

\* A request is in flight whose url was typed with a blank around it and
\* without a prefix, and one whose url was typed with a prefix.
C21_Witness ==
    \E s \in Sessions :
        /\ addReq[s].pc = "requested"
        /\ url[s] # Trim(url[s])
        /\ insertBody[s].url = <<"https://", "x">>
        /\ insertBody[s].title = <<"x">>

\* C22: when the answer of a select without error is processed, in init()
\* or after a failed delete, the list becomes exactly the rows of the answer,
\* newest first and each once, whatever it held before: every entry that is
\* not in the answer is gone.
C22_ResyncReplacesList ==
    [][\A s \in Sessions :
        /\ (InitDone(s) /\ ~initReq[s].res.error)
           => /\ bookmarks'[s] = initReq[s].res.data
              /\ SortedDesc(bookmarks'[s]) /\ NoDuplicateIds(bookmarks'[s])
        /\ \A id \in Ids :
              (DeleteRefetched(s, id) /\ ~delReq[s][id].res.error)
              => /\ bookmarks'[s] = delReq[s][id].res.data
                 /\ SortedDesc(bookmarks'[s]) /\ NoDuplicateIds(bookmarks'[s])]_vars

\* A resync after a failed delete has put rows in the list and has discarded
\* an entry that was merged after the select was answered.
C22_Witness ==
    /\ last.op = "reconcileFull"
    /\ last.id # 0
    /\ bookmarks[last.s] # <<>>
    /\ staleIds[last.s] # {}
    /\ staleIds[last.s] \subseteq StoreIds(user[last.s])

\* The alerts that report a failed request.
FailureNotices == {"Failed to add bookmark. Please try again.",
                   "Failed to delete bookmark. Please try again.",
                   "An unexpected error occurred."}

\* C23: the handler step that processes a failed insert, and the one that
\* ends a failed delete, each show one alert that reports the failure and
\* leave no request of that add or delete in flight; and no other handler
\* step shows such an alert.
C23_OneNoticePerFailure ==
    [][\A s \in Sessions :
        /\ (addReq[s].pc = "failed" /\ AddResponse(s))
           => /\ notice'[s] \in FailureNotices
              /\ addReq'[s].pc = "idle" /\ insertBody'[s] = NoBody
              /\ store' = store
        /\ \A id \in Ids :
              DeleteRefetched(s, id)
              => /\ notice'[s] \in FailureNotices
                 /\ delReq'[s][id].pc = "idle"
                 /\ store' = store
        /\ (last' # last /\ last'.s = s /\ notice'[s] \in FailureNotices)
           => \/ addReq[s].pc = "failed" /\ addReq'[s].pc = "idle"
              \/ \E id \in Ids : delReq[s][id].pc = "refetch" /\ delReq'[s][id].pc = "idle"]_vars

\* A failed delete has been reported although its resync failed too and the
\* entry, still in the table, is not back in the list.
C23_Witness ==
    /\ last.op = "reconcileFull"
    /\ last.id \in StoreIds(user[last.s])
    /\ last.id \notin IdsOf(bookmarks[last.s])
    /\ notice[last.s] \in FailureNotices
    /\ delReq[last.s][last.id].pc = "idle"

\* C24: every entry of a session's list is a row of the session's user.
C24_OwnEntriesOnly ==
    \A s \in Sessions : \A i \in 1 .. Len(bookmarks[s]) :
        bookmarks[s][i].user_id = user[s]


\* C25: the table admits a read, an insert, a delete and an update only on
\* rows whose owner is the caller: a step of a caller adds, removes or
\* rewrites only rows of that caller, a caller without a session changes
\* nothing, and what a caller can read never holds a row of another account.
C25_PoliciesGateOnOwner ==
    [][\A uid \in Callers :
        /\ \A owner \in Callers \ {NoUser} :
              PolicyInsert(uid, owner)
              => /\ uid = owner
                 /\ store \subseteq store'
                 /\ \A r \in store' \ store : r.user_id = uid
        /\ \A id \in Ids :
              PolicyDelete(uid, id)
              => /\ store' \subseteq store
                 /\ \A r \in store \ store' : r.user_id = uid /\ r.id = id
        /\ \A id \in Ids, owner \in Callers \ {NoUser}, at \in 1 .. MaxRecords :
              PolicyUpdate(uid, id, owner, at)
              => /\ \A r \in store \ store' : r.user_id = uid
                 /\ \A r \in store' \ store : r.user_id = uid
        /\ \A r \in {x \in store' : SelectPolicy(uid, x)} : r.user_id = uid
        /\ \A q \in SelectOrdered(store', uid) :
              \A i \in 1 .. Len(q) : q[i].user_id = uid /\ SelectPolicy(uid, q[i])
        /\ (uid = NoUser) => {x \in store' : SelectPolicy(uid, x)} = {}]_vars

\* Both accounts own rows, a row has been deleted and a row rewritten, and
\* the second account reads none of the rows of the first.
C25_Witness ==
    /\ \E r \in store : r.user_id = UserId("A")
    /\ \E r \in store : r.user_id = OtherUser
    /\ \E r \in store : r.created_at # r.id
    /\ Cardinality(store) < nextId - 1
    /\ Visible(OtherUser) # {}
    /\ \A r \in Visible(OtherUser) : r.user_id # UserId("A")

\* C26: whenever the access token of a session changes, the list of the
\* session is brought up to date by a full resync: once the token has
\* changed and nothing is left to deliver, the list holds exactly the ids of
\* the rows of the user, also when notifications were lost in a gap before.
C26_ResyncOnTokenChange ==
    [][\A s \in Sessions :
        (AuthStateChange(s) /\ feed[s] = {})
        => \/ IdsOf(bookmarks'[s]) = StoreIds(user[s])
           \/ initReq'[s].pc = "fetching"
           \/ \E id \in Ids : delReq'[s][id].pc = "refetch"]_vars

\* The add request or a delete request of the session has been sent and its
\* handler has not yet ended.
InsertInFlight(s) == addReq[s].pc # "idle"
DeleteInFlight(s) == \E id \in Ids : delReq[s][id].pc \in {"requested", "refetch"}

\* The budgets of the model leave room for one more add, one more delete.
RoomForAdd == ops < MaxOps /\ nextId + Cardinality(Sessions) <= MaxRecords
RoomForDelete == ops < MaxOps

\* C27 as stated: while an insert request is in flight, a further submitAdd
\* is enabled.
C27_AddWhileInsertInFlight ==
    \A s \in Sessions :
        (InsertInFlight(s) /\ RoomForAdd)
        => ENABLED SubmitAdd(s, SomeTitle, SomeUrl)

\* C27: while an insert is in flight the add form is disabled and no further
\* submitAdd is enabled; a submitDelete of a listed entry and every
\* notification in the feed are enabled and take effect on the list before
\* the response arrives.  While only a delete is in flight, a submitAdd, a
\* submitDelete of another listed entry and the notifications are enabled.
\* (The step a session took last is read from last: the list is as that
\* step left it.)
C27_ResponsiveWhileInFlight ==
    \A s \in Sessions :
        /\ InsertInFlight(s)
           => /\ FormDisabled(s)
              /\ ~ENABLED SubmitAdd(s, SomeTitle, SomeUrl)
        /\ (DeleteInFlight(s) /\ ~InsertInFlight(s) /\ RoomForAdd)
           => ENABLED SubmitAdd(s, SomeTitle, SomeUrl)
        /\ (InsertInFlight(s) \/ DeleteInFlight(s))
           => /\ \A id \in IdsOf(bookmarks[s]) :
                    (RoomForDelete /\ delReq[s][id].pc \in {"idle", "done"})
                    => ENABLED SubmitDelete(s, id)
              /\ \A n \in feed[s] :
                    /\ n.type = "INSERT" => ENABLED MergeRemoteInsert(s, n, FALSE)
                    /\ n.type = "DELETE" => ENABLED MergeRemoteDelete(s, n, FALSE)
              /\ last.s = s
                 => /\ last.op = "submitDelete" => last.id \notin IdsOf(bookmarks[s])
                    /\ last.op = "mergeRemoteInsert" => last.id \in IdsOf(bookmarks[s])
                    /\ last.op = "mergeRemoteDelete" => last.id \notin IdsOf(bookmarks[s])

\* An insert request is in flight and the session has just deleted a listed
\* entry: the entry is gone while the response of the insert is pending.
C27_Witness ==
    /\ last.op = "submitDelete"
    /\ addReq[last.s].pc = "requested"
    /\ adding[last.s]
    /\ delReq[last.s][last.id].pc = "requested"
    /\ last.id \notin IdsOf(bookmarks[last.s])

C29_LazyClientOnce ==
    [][/\ \A m \in ClientModules :
            /\ supabaseClient[m] # 0 => supabaseClient'[m] = supabaseClient[m]
            /\ (supabaseClient'[m] # supabaseClient[m])
               => /\ \E prop \in Props : ProxyGet(m, prop)
                  /\ created' = created + 1
                  /\ ~Missing(env)
            /\ \A prop \in Props :
                  ProxyGet(m, prop)
                  => IF Missing(env)
                     THEN /\ accessed'[m].threw
                          /\ supabaseClient'[m] = 0
                          /\ created' = created
                     ELSE /\ ~accessed'[m].threw
                          /\ supabaseClient'[m] # 0
            /\ accessed'[m].n = 0 => supabaseClient'[m] = 0
       /\ created' = Cardinality({m \in ClientModules : supabaseClient'[m] # 0})
       /\ created' <= Cardinality(ClientModules)]_vars

\* A module has been read several times and holds the one client made for
\* it at its first read.
C29_Witness ==
    /\ ~Missing(env)
    /\ accessed["lib"].n = MaxAccesses
    /\ ~accessed["lib"].threw
    /\ accessed["lib"].prop \in Props
    /\ supabaseClient["lib"] = 1
    /\ created = 1

\* init() of the session ended without a user.
Redirected(s) == initReq[s].pc \in {"redirected", "failed"}

\* C30: when the lookup of the current user gives an error or no user, or
\* the validation of the configuration throws, the session is redirected to
\* the login page and from then on has no user, has issued no select and no
\* insert, receives no notification, and its list is empty.
C30_NoUserNoData ==
    [][\A s \in Sessions :
        /\ \A cause \in {"error", "no user", "throws"} :
              InitUnauthenticated(s, cause)
              => /\ Redirected(s)'
                 /\ failures' = failures
                 /\ ~loading'[s]
        /\ Redirected(s)'
           => /\ user'[s] = NoUser
              /\ bookmarks'[s] = <<>>
              /\ feed'[s] = {}
              /\ token'[s] = 0
              /\ addReq'[s].pc = "idle"
              /\ insertBody'[s] = NoBody
              /\ \A id \in Ids : delReq'[s][id].pc = "idle"
        /\ Redirected(s) => initReq'[s] = initReq[s]
        /\ (initReq[s].pc = "start" /\ Missing(env)) => ~ENABLED InitFetch(s)]_vars

\* The session was redirected; since then rows of its account were added
\* and deleted by another tab, and its list is empty with nothing to deliver.
C30_Witness ==
    /\ initReq["A"].pc = "redirected"
    /\ \E r \in store : r.user_id = UserId("A")
    /\ Cardinality(store) < nextId - 1
    /\ bookmarks["A"] = <<>>
    /\ feed["A"] = {}
    /\ user["A"] = NoUser

\* C31: a full resync whose select fails leaves the list as it was and shows
\* nothing of its own: at the end of init() no alert is shown, and after a
\* failed delete the only alert is the one of the delete.  So when the
\* resync after a failed delete fails too, the entry the delete took out
\* stays out of the list while the table still holds its row.
C31_FailedResyncSilent ==
    [][\A s \in Sessions :
        /\ (InitDone(s) /\ initReq[s].res.error)
           => /\ bookmarks'[s] = bookmarks[s]
              /\ notice'[s] = NoNotice
        /\ \A id \in Ids :
              (DeleteRefetched(s, id) /\ delReq[s][id].res.error)
              => /\ bookmarks'[s] = bookmarks[s]
                 /\ notice'[s] \in {DeleteNotice(how) : how \in DeleteOutcomes}
                 /\ store' = store
                 /\ (id \notin IdsOf(bookmarks[s]) /\ id \in StoreIds(user[s]))
                    => (id \notin IdsOf(bookmarks'[s]) /\ id \in StoreIds(user[s])')]_vars

\* The delete of a listed entry failed and so did the resync after it: the
\* row is in the table, the entry is not in the list, another entry is.
C31_Witness ==
    /\ last.op = "reconcileFull"
    /\ last.prev = "submitDelete"
    /\ failures >= 2
    /\ last.id \in StoreIds(user[last.s])
    /\ last.id \notin IdsOf(bookmarks[last.s])
    /\ bookmarks[last.s] # <<>>
    /\ IdsOf(bookmarks[last.s]) \subseteq StoreIds(user[last.s])

\* C32: the handlers clear the title and url inputs exactly when the insert
\* answered without an error; after an insert that answered with an error or
\* threw, both inputs keep their texts, and submitting them again sends the
\* row of the request that failed.  No other handler step changes an input;
\* apart from that only typing does.
C32_FormClearedOnSuccessOnly ==
    [][\A s \in Sessions :
        /\ (AddResponse(s) /\ addReq[s].pc = "data")
           => title'[s] = <<>> /\ url'[s] = <<>>
        /\ (AddResponse(s) /\ addReq[s].pc = "failed")
           => /\ title'[s] = title[s] /\ url'[s] = url[s]
              /\ ~Invalid(title'[s], url'[s])
              /\ InsertBody(user'[s], title'[s], url'[s]) = insertBody[s]
        /\ (title'[s] # title[s] \/ url'[s] # url[s])
           => \/ AddResponse(s) /\ addReq[s].pc = "data"
              \/ \E v \in Inputs({" ", "x"}) : SetTitle(s, v)
              \/ \E v \in Inputs(Chars) : SetUrl(s, v)]_vars

\* An add has just failed and the form still holds the title and the url
\* that were submitted, the url without a prefix.
C32_Witness ==
    /\ last.op = "addFailed"
    /\ notice[last.s] \in FailureNotices
    /\ title[last.s] # <<>>
    /\ url[last.s] # <<>>
    /\ ~StartsWith(Trim(url[last.s]), "https://")
    /\ ~Invalid(title[last.s], url[last.s])
    /\ addReq[last.s].pc = "idle"

\* C33: adding is true exactly while the insert request of the session is
\* in flight: a submission finds it false and sets it, the handling of the
\* response (data, error or throw) finds it true and resets it, and no
\* submission happens while it is true, so a session has at most one insert
\* request in flight.
C33_AddingWhileInFlight ==
    [][\A s \in Sessions :
        /\ adding[s] <=> addReq[s].pc # "idle"
        /\ adding'[s] <=> addReq'[s].pc # "idle"
        /\ SubmitAdd(s, SomeTitle, SomeUrl)
           => /\ ~adding[s] /\ addReq[s].pc = "idle"
              /\ adding'[s] /\ addReq'[s].pc = "requested"
        /\ AddResponse(s)
           => /\ adding[s] /\ addReq[s].pc \in {"data", "failed"}
              /\ ~adding'[s] /\ addReq'[s].pc = "idle"
        /\ (adding'[s] # adding[s])
           => SubmitAdd(s, SomeTitle, SomeUrl) \/ AddResponse(s)]_vars

\* The session has submitted again after an add that failed: adding was set,
\* reset and is set again, with one request in flight.
C33_Witness ==
    /\ last.op = "submitAdd"
    /\ failures >= 1
    /\ ops >= 2
    /\ adding[last.s]
    /\ addReq[last.s].pc = "requested"
    /\ store = {}

\* C34: the updaters work on the list as it is when they are applied: the
\* confirmation of an add keeps every entry the list holds at that moment,
\* in order, and adds no entry but the returned row, so an entry merged in
\* meanwhile stays and one a DELETE took out meanwhile stays out; a delete
\* that the table confirms changes nothing in the list; and a
\* notification delivered while a request is in flight changes the list as
\* it does otherwise.
C34_UpdatersUseCurrentList ==
    [][\A s \in Sessions :
        /\ (AddResponse(s) /\ addReq[s].pc = "data")
           => /\ Tail(bookmarks'[s]) = bookmarks[s]
              /\ IdsOf(bookmarks'[s]) = IdsOf(bookmarks[s]) \cup {addReq[s].rec.id}
        /\ \A id \in Ids :
              /\ StoreDelete(s, id) => bookmarks'[s] = bookmarks[s]
              /\ SubmitDelete(s, id)
                 => bookmarks'[s] = SelectSeq(bookmarks[s], LAMBDA item : item.id # id)
        /\ \A n \in feed[s], again \in BOOLEAN :
              (InsertInFlight(s) \/ DeleteInFlight(s))
              => /\ MergeRemoteInsert(s, n, again)
                    => IdsOf(bookmarks'[s]) = IdsOf(bookmarks[s]) \cup {n.rec.id}
                 /\ MergeRemoteDelete(s, n, again)
                    => IdsOf(bookmarks'[s]) = IdsOf(bookmarks[s]) \ {n.rec.id}]_vars

\* An add has been confirmed; below its row the list holds a row the table
\* inserted after it, merged while the add was in flight.
C34_Witness ==
    /\ last.op = "addConfirmed"
    /\ Len(bookmarks[last.s]) >= 2
    /\ bookmarks[last.s][1].id = last.id
    /\ \E i \in 2 .. Len(bookmarks[last.s]) : bookmarks[last.s][i].id > last.id

\* C35: a dashboard has at most one subscribed channel at any time: none
\* while it has no user, one once the user is set, and none after it was
\* unmounted, so that a dashboard mounted afterwards starts without a
\* channel left over.
C35_AtMostOneChannel ==
    \A s \in Sessions :
        /\ channels[s] \in {0, 1}
        /\ channels[s] = 1 <=> user[s] # NoUser
        /\ initReq[s].pc \in {"start", "unmounted", "redirected", "failed"}
           => channels[s] = 0 /\ feed[s] = {}

\* The dashboard mounted a second time has its user and its one channel,
\* the channel of the first mount being unsubscribed.
C35_Witness ==
    /\ mounts["A"] = 2
    /\ user["A"] # NoUser
    /\ channels["A"] = 1
    /\ initReq["A"].pc = "done"

\* C36: init() always comes to its end: however the validation, the lookup
\* of the user, the lookup of the session and the first select end, loading
\* becomes false at some point and is false from then on.
C36_InitTerminates ==
    /\ \A s \in Sessions : <>[](~loading[s])
    /\ [][\A s \in Sessions : ~loading[s] => ~loading'[s]]_vars

\* init() has ended after a select that failed: loading is false, the list
\* is empty and the table holds a row of the user.
C36_Witness ==
    /\ initReq["A"].pc = "done"
    /\ ~loading["A"]
    /\ failures >= 1
    /\ bookmarks["A"] = <<>>
    /\ feed["A"] = {}
    /\ StoreIds(user["A"]) # {}
====
